---- MODULE Spec2Model ----
(***************************************************************************)
(* Model of the Korean-aware in-memory search engine of md-docs            *)
(* (src/src/lib/search.ts) and of the search store that drives it          *)
(* (src/unnamed/part_016).                                                 *)
(*                                                                         *)
(* A JavaScript string is a sequence of characters; a character is a       *)
(* short TLA+ string.  Positions are 0-based as in the source, so the      *)
(* character at source position i is s[i + 1].                             *)
(***************************************************************************)
EXTENDS Integers, Sequences, FiniteSets, TLC

(***************************************************************************)
(* Characters.  GA stands for the Hangul syllable U+AC00 (giyeok + a),     *)
(* JG for the compatibility jamo U+3131 (giyeok, a chosung), JA for the    *)
(* compatibility jamo U+314F (the vowel a); AG for the syllable U+C545      *)
(* (ieung + a + final giyeok) and JO for the jamo U+3147 (ieung, a         *)
(* chosung).                                                               *)
(***************************************************************************)
GA == "GA"
JG == "Jg"
JA == "Ja"
AG == "AG"
JO == "Jo"
SP == " "
NL == "\n"
HASH == "#"
DOT == "."

\* The bounds of the model.
MaxTitleLen == 3
MaxQueryLen == 2
MaxDocs == 2

\* The characters documents and queries are written in.
Alphabet == {"a", "A", "b", SP, GA, JG}

RECURSIVE StringsUpTo(_, _)
StringsUpTo(chars, n) ==
    IF n = 0 THEN {<<>>}
    ELSE LET shorter == StringsUpTo(chars, n - 1)
         IN  shorter \cup {Append(s, c) : s \in {t \in shorter : Len(t) = n - 1}, c \in chars}

(***************************************************************************)
(* String primitives of the JavaScript runtime.                            *)
(***************************************************************************)
Min(a, b) == IF a < b THEN a ELSE b
Max(a, b) == IF a > b THEN a ELSE b

\* String.prototype.toLowerCase, on the characters of the model.
LowerChar(c) == IF c = "A" THEN "a" ELSE IF c = "B" THEN "b" ELSE c
toLowerCase(s) == [i \in 1..Len(s) |-> LowerChar(s[i])]

\* String.prototype.slice(start, end) with 0 <= start, end.
slice(s, start, end) ==
    LET e == Min(end, Len(s))
    IN  IF start >= e THEN <<>> ELSE SubSeq(s, start + 1, e)

\* s.startsWith(sub, at): sub occurs in s at 0-based position at.
OccursAt(s, sub, at) ==
    /\ at >= 0
    /\ at + Len(sub) <= Len(s)
    /\ \A k \in 1..Len(sub) : s[at + k] = sub[k]

\* String.prototype.includes.
includes(s, sub) == \E at \in 0..(Len(s) - Len(sub)) : OccursAt(s, sub, at)

\* String.prototype.indexOf(sub, from): first position >= from, or -1.
indexOf(s, sub, from) ==
    LET hits == {at \in from..(Len(s) - Len(sub)) : OccursAt(s, sub, at)}
    IN  IF hits = {} THEN -1 ELSE CHOOSE at \in hits : \A o \in hits : at <= o

\* String.prototype.lastIndexOf(sub, from): last position <= from, or -1.
lastIndexOf(s, sub, from) ==
    LET hits == {at \in 0..Min(from, Len(s) - Len(sub)) : OccursAt(s, sub, at)}
    IN  IF hits = {} THEN -1 ELSE CHOOSE at \in hits : \A o \in hits : at >= o

\* White space as \s and String.prototype.trim see it.
IsSpace(c) == c \in {SP, NL}

RECURSIVE trimStart(_)
trimStart(s) == IF s # <<>> /\ IsSpace(Head(s)) THEN trimStart(Tail(s)) ELSE s

RECURSIVE trimEnd(_)
trimEnd(s) ==
    IF s # <<>> /\ IsSpace(s[Len(s)]) THEN trimEnd(SubSeq(s, 1, Len(s) - 1)) ELSE s

trim(s) == trimEnd(trimStart(s))

\* String.prototype.split(sep) for a separator that is a regular expression
\* matching one or more characters of a class: ["" first when s starts
\* with a separator, "" last when it ends with one, [""] for the empty string.
RECURSIVE SplitFrom(_, _, _, _)
SplitFrom(s, i, cur, seps) ==
    IF i > Len(s) THEN <<cur>>
    ELSE IF s[i] \in seps
         THEN IF i > 1 /\ s[i - 1] \in seps
              THEN SplitFrom(s, i + 1, cur, seps)
              ELSE <<cur>> \o SplitFrom(s, i + 1, <<>>, seps)
         ELSE SplitFrom(s, i + 1, Append(cur, s[i]), seps)

\* content.split(/\s+/).
splitSpaces(s) == SplitFrom(s, 1, <<>>, {SP, NL})

\* Array.prototype.join(" ").
RECURSIVE joinSpace(_)
joinSpace(parts) ==
    IF parts = <<>> THEN <<>>
    ELSE IF Len(parts) = 1 THEN parts[1]
    ELSE parts[1] \o <<SP>> \o joinSpace(Tail(parts))

Range(f) == {f[i] : i \in DOMAIN f}

RECURSIVE FlattenSeq(_)
FlattenSeq(ss) == IF ss = <<>> THEN <<>> ELSE Head(ss) \o FlattenSeq(Tail(ss))

\* [...new Set(xs)]: the first occurrence of every element, in order.
RECURSIVE Dedupe(_)
Dedupe(xs) ==
    IF xs = <<>> THEN <<>>
    ELSE LET init == Dedupe(SubSeq(xs, 1, Len(xs) - 1))
             last == xs[Len(xs)]
         IN  IF last \in Range(init) THEN init ELSE Append(init, last)

RECURSIVE SelectSeqBy(_, _)
SelectSeqBy(xs, keep) ==
    IF xs = <<>> THEN <<>>
    ELSE (IF Head(xs) \in keep THEN <<Head(xs)>> ELSE <<>>) \o SelectSeqBy(Tail(xs), keep)

(***************************************************************************)
(* State.  documents is the corpus the content layer supplies; index is    *)
(* the SearchIndex built from it (NoIndex before the first build);         *)
(* hangulFault is the set of es-hangul functions that throw when called    *)
(* (malformed input, section 4.2 and 7 of the specification); the other    *)
(* variables record the last call of the engine and what it returned.      *)
(***************************************************************************)
VARIABLES documents, index, hangulFault, call, outcome, store, tasks, localStorage

vars == <<documents, index, hangulFault, call, outcome, store, tasks, localStorage>>

NoIndex == [built |-> FALSE]

\* The search store (useSearchStore) as create(...) leaves it, and the
\* callbacks it has scheduled and that have not run yet: idle holds the
\* documents of every doIndex handed to requestIdleCallback / setTimeout,
\* micro the index and the query of every doSearch handed to
\* queueMicrotask, both in the order they were scheduled.
InitialStore ==
    [isOpen |-> FALSE, query |-> <<>>, index |-> NoIndex, isIndexing |-> FALSE,
     results |-> <<>>, isSearching |-> FALSE, recentSearches |-> <<>>,
     selectedIndex |-> 0]

NoTasks == [idle |-> <<>>, micro |-> <<>>]

\* localStorage without the key of the recent searches, and with the JSON
\* text of a list of strings under it (JSON.parse gives back the list
\* JSON.stringify was given).
NoItem == [present |-> FALSE]
Item(list) == [present |-> TRUE, json |-> list]

(***************************************************************************)
(* Outcome of a JavaScript call: a value, or an exception that escapes.    *)
(***************************************************************************)
Ok(v) == [thrown |-> FALSE, val |-> v]
Thrown == [thrown |-> TRUE, val |-> <<>>]

(***************************************************************************)
(* Korean language utilities.                                              *)
(***************************************************************************)
\* Hangul syllables, and the compatibility jamo block.
isKorean(char) == char \in {GA, JG, JA, AG, JO}

\* /^[ㄱ-ㅎ]+$/: one or more initial-consonant jamo, nothing else.
isChosungOnly(str) == str # <<>> /\ \A i \in 1..Len(str) : str[i] \in {JG, JO}

containsKorean(text) == \E i \in 1..Len(text) : isKorean(text[i])

\* es-hangul getChoseong: the initial consonant of every syllable; initial
\* consonant jamo and white space are kept, every other character dropped.
ChoseongOfChar(c) ==
    IF c = GA THEN <<JG>>
    ELSE IF c = AG THEN <<JO>>
    ELSE IF c \in {JG, JO} \/ IsSpace(c) THEN <<c>>
    ELSE <<>>
getChoseong(word) == FlattenSeq([i \in 1..Len(word) |-> ChoseongOfChar(word[i])])

\* es-hangul disassemble: every syllable split into its jamo; every other
\* character unchanged.
DisassembleChar(c) ==
    IF c = GA THEN <<JG, JA>> ELSE IF c = AG THEN <<JO, JA, JG>> ELSE <<c>>
disassemble(str) == FlattenSeq([i \in 1..Len(str) |-> DisassembleChar(str[i])])

\* Whether a call of the named es-hangul function throws.
Throws(fn) == fn \in hangulFault

\* chosungIncludes that forgets to take the chosung of the text.
chosungIncludesRaw(text, chosungQuery) == includes(text, chosungQuery)

chosungIncludes(text, chosungQuery) == includes(getChoseong(text), chosungQuery)

\* normalizeKoreanQuery pushing the chosung form before the disassembled
\* one.
normalizeKoreanQueryChosungFirst(query) ==
    IF isChosungOnly(query) THEN <<query, query>>
    ELSE IF containsKorean(query)
    THEN IF Throws("getChoseong") THEN Dedupe(<<query>>)
         ELSE LET chosung == getChoseong(query)
                  v1 == IF chosung # <<>> /\ chosung # query
                        THEN <<query, chosung>> ELSE <<query>>
              IN  IF Throws("disassemble") THEN Dedupe(v1)
                  ELSE LET disassembled == disassemble(query)
                       IN  Dedupe(IF disassembled # query
                                  THEN Append(v1, disassembled) ELSE v1)
    ELSE Dedupe(<<query>>)

\* The statements of the try block of normalizeKoreanQuery, with the
\* variants pushed before a throw kept by the catch.
normalizeKoreanQuery(query) ==
    IF isChosungOnly(query) THEN <<query, query>>
    ELSE IF containsKorean(query)
    THEN IF Throws("disassemble") THEN Dedupe(<<query>>)
         ELSE LET disassembled == disassemble(query)
                  v1 == IF disassembled # query THEN <<query, disassembled>> ELSE <<query>>
              IN  IF Throws("getChoseong") THEN Dedupe(v1)
                  ELSE LET chosung == getChoseong(query)
                       IN  Dedupe(IF chosung # <<>> /\ chosung # query
                                  THEN Append(v1, chosung) ELSE v1)
    ELSE Dedupe(<<query>>)

\* koreanMatch with its two try blocks removed: an exception of es-hangul
\* escapes to the caller.
koreanMatchNoCatch(text, query) ==
    IF includes(toLowerCase(text), toLowerCase(query)) THEN Ok(TRUE)
    ELSE IF isChosungOnly(query)
    THEN IF Throws("getChoseong") THEN Thrown ELSE Ok(chosungIncludes(text, query))
    ELSE IF containsKorean(query)
    THEN IF Throws("disassemble") THEN Thrown
         ELSE Ok(includes(toLowerCase(disassemble(text)), toLowerCase(disassemble(query))))
    ELSE Ok(FALSE)

\* koreanMatch whose chosung branch returns only when it matched, and goes
\* on to the disassembled forms when it did not.
koreanMatchFallingThrough(text, query) ==
    IF includes(toLowerCase(text), toLowerCase(query)) THEN Ok(TRUE)
    ELSE IF isChosungOnly(query) /\ ~Throws("getChoseong") /\ chosungIncludes(text, query)
    THEN Ok(TRUE)
    ELSE IF containsKorean(query)
    THEN IF Throws("disassemble") THEN Ok(FALSE)
         ELSE Ok(includes(toLowerCase(disassemble(text)), toLowerCase(disassemble(query))))
    ELSE Ok(FALSE)

\* koreanMatch: the value returned, as an outcome (no exception escapes:
\* both library calls sit in a try block whose catch returns false).
koreanMatch(text, query) ==
    IF includes(toLowerCase(text), toLowerCase(query)) THEN Ok(TRUE)
    ELSE IF isChosungOnly(query)
    THEN IF Throws("getChoseong") THEN Ok(FALSE) ELSE Ok(chosungIncludes(text, query))
    ELSE IF containsKorean(query)
    THEN IF Throws("disassemble") THEN Ok(FALSE)
         ELSE Ok(includes(toLowerCase(disassemble(text)), toLowerCase(disassemble(query))))
    ELSE Ok(FALSE)


(***************************************************************************)
(* Text normalizer.                                                        *)
(***************************************************************************)
\* Length of the run of characters of cls in s from 1-based position i.
RECURSIVE RunLen(_, _, _)
RunLen(s, i, cls) == IF i <= Len(s) /\ s[i] \in cls THEN 1 + RunLen(s, i + 1, cls) ELSE 0

AtLineStart(s, i) == i = 1 \/ s[i - 1] = NL

\* .replace(/^#{1,6}\s+/gm, ""): at a line start, one to six '#' followed
\* by white space are removed together with that white space.
RECURSIVE StripHeadingMarkers(_, _)
StripHeadingMarkers(s, i) ==
    IF i > Len(s) THEN <<>>
    ELSE LET h == RunLen(s, i, {HASH})
             w == RunLen(s, i + h, {SP, NL})
         IN  IF AtLineStart(s, i) /\ h >= 1 /\ h <= 6 /\ w >= 1
             THEN StripHeadingMarkers(s, i + h + w)
             ELSE <<s[i]>> \o StripHeadingMarkers(s, i + 1)

\* .replace(/\s+/g, " ").
RECURSIVE CollapseWhitespace(_, _)
CollapseWhitespace(s, i) ==
    IF i > Len(s) THEN <<>>
    ELSE IF IsSpace(s[i])
         THEN <<SP>> \o CollapseWhitespace(s, i + RunLen(s, i, {SP, NL}))
         ELSE <<s[i]>> \o CollapseWhitespace(s, i + 1)

CharAt(s, i) == IF i >= 1 /\ i <= Len(s) THEN s[i] ELSE ""

\* The length of the text in brackets and of the target in parentheses of
\* a match of \[([^\]]minText,)\]\([^)]+\) at position i of s, or <<>> when
\* there is no match at i.
BracketsAndTarget(s, i, minText) ==
    LET n == RunLen(s, i + 1, Range(s) \ {"]"})
        m == RunLen(s, i + n + 3, Range(s) \ {")"})
    IN  IF /\ CharAt(s, i) = "[" /\ n >= minText
           /\ CharAt(s, i + n + 1) = "]" /\ CharAt(s, i + n + 2) = "("
           /\ m >= 1 /\ CharAt(s, i + n + m + 3) = ")"
        THEN <<n, m>> ELSE <<>>

\* .replace(/\[([^\]]+)\]\([^)]+\)/g, "$1"): a link gives way to its text.
RECURSIVE StripLinks(_, _)
StripLinks(s, i) ==
    IF i > Len(s) THEN <<>>
    ELSE LET at == BracketsAndTarget(s, i, 1)
         IN  IF at # <<>>
             THEN SubSeq(s, i + 1, i + at[1]) \o StripLinks(s, i + at[1] + at[2] + 4)
             ELSE <<s[i]>> \o StripLinks(s, i + 1)

\* .replace(/!\[([^\]]*)\]\([^)]+\)/g, " "): an image gives way to a
\* blank.
RECURSIVE StripImages(_, _)
StripImages(s, i) ==
    IF i > Len(s) THEN <<>>
    ELSE LET at == IF s[i] = "!" THEN BracketsAndTarget(s, i + 1, 0) ELSE <<>>
         IN  IF at # <<>>
             THEN <<SP>> \o StripImages(s, i + at[1] + at[2] + 5)
             ELSE <<s[i]>> \o StripImages(s, i + 1)

\* stripMarkdown.  The replacements for code blocks, inline code,
\* emphasis, horizontal rules, blockquotes and list markers need one of
\* the characters ` * _ - > + or a digit to match; the contents of the
\* model hold none of them, so these steps leave the string as it is.
stripMarkdown(content) ==
    trim(CollapseWhitespace(
             StripHeadingMarkers(StripImages(StripLinks(content, 1), 1), 1), 1))

\* extractHeadings: /^#{1,3}\s+(.+)$/gm, each capture trimmed.
RECURSIVE HeadingsFrom(_, _)
HeadingsFrom(s, i) ==
    IF i > Len(s) THEN <<>>
    ELSE LET h == RunLen(s, i, {HASH})
             w == RunLen(s, i + h, {SP, NL})
             p == i + h + w
             eol == p + RunLen(s, p, Range(s) \ {NL})
         IN  IF AtLineStart(s, i) /\ h >= 1 /\ h <= 3 /\ w >= 1 /\ eol > p
             THEN <<trim(SubSeq(s, p, eol - 1))>> \o HeadingsFrom(s, eol)
             ELSE IF /\ AtLineStart(s, i) /\ h >= 1 /\ h <= 3 /\ p > Len(s)
                     /\ \E k \in (i + h + 1)..Len(s) : s[k] = SP
             \* the white space runs to the end of the content: \s+ gives
             \* back a blank for (.+), and the heading is the empty string
             THEN <<(<<>>)>>
             ELSE HeadingsFrom(s, i + 1)

extractHeadings(content) == HeadingsFrom(content, 1)

(***************************************************************************)
(* The FlexSearch index ({tokenize: "forward", resolution: 9}): the token  *)
(* to document ids mapping of section 4.3 and 9 of the specification.      *)
(* Every prefix of every word of an added text is a key; the ids under a   *)
(* key are ordered by the slot of the first word that has the prefix       *)
(* (its position, scaled to the resolution), then by insertion.            *)
(***************************************************************************)
Resolution == 9

\* The default encoder: lower case, split at separators, symbols,
\* punctuation and control characters.
Separators == {SP, NL, HASH, DOT}
FlexEncode(str) == IF str = <<>> THEN <<>> ELSE SplitFrom(toLowerCase(str), 1, <<>>, Separators)

\* The slot of the word at position i (0-based) of length words.
FlexScore(length, i) ==
    IF i = 0 THEN 0
    ELSE IF length <= Resolution THEN i
    ELSE (((Resolution - 1) * i) \div length) + 1

IsPrefix(p, word) == Len(p) >= 1 /\ Len(p) <= Len(word) /\ SubSeq(word, 1, Len(p)) = p

\* The slot under which text files token, or -1 when it does not.
FlexSlot(text, token) ==
    LET words == FlexEncode(text)
        at == {i \in 1..Len(words) : IsPrefix(token, words[i])}
    IN  IF at = {} THEN -1
        ELSE FlexScore(Len(words), (CHOOSE i \in at : \A j \in at : i <= j) - 1)

\* The ids in ids (ascending) whose text files token under slot.
RECURSIVE IdsInSlot(_, _, _, _)
IdsInSlot(entries, token, slot, id) ==
    IF id > Len(entries) - 1 THEN <<>>
    ELSE (IF entries[id + 1].added /\ FlexSlot(entries[id + 1].text, token) = slot
          THEN <<id>> ELSE <<>>) \o IdsInSlot(entries, token, slot, id + 1)

RECURSIVE IdsBySlot(_, _, _)
IdsBySlot(entries, token, slot) ==
    IF slot >= Resolution THEN <<>>
    ELSE IdsInSlot(entries, token, slot, 0) \o IdsBySlot(entries, token, slot + 1)

Prefixes(word) == {SubSeq(word, 1, n) : n \in 1..Len(word)}
TokensOf(text) == UNION {Prefixes(w) : w \in Range(FlexEncode(text))}

\* new FlexSearchIndex(...) followed by add(id, text) for every entry that
\* is added, ids ascending; entries[id + 1] = [added, text].
FlexIndexOf(entries) ==
    LET tokens == UNION {TokensOf(entries[k].text) : k \in {j \in 1..Len(entries) : entries[j].added}}
    IN  [tok \in tokens |-> IdsBySlot(entries, tok, 0)]

FlexLookup(map, term) == IF term \in DOMAIN map THEN map[term] ELSE <<>>

\* The terms of a query of several words: empty words and repetitions
\* dropped, then the longest first (a stable sort).
RECURSIVE LongestFirst(_)
LongestFirst(terms) ==
    IF terms = <<>> THEN <<>>
    ELSE LET m == CHOOSE i \in 1..Len(terms) :
                    /\ \A j \in 1..Len(terms) : Len(terms[j]) <= Len(terms[i])
                    /\ \A j \in 1..(i - 1) : Len(terms[j]) < Len(terms[i])
         IN  <<terms[m]>> \o LongestFirst(SubSeq(terms, 1, m - 1) \o SubSeq(terms, m + 1, Len(terms)))

\* index.search(query, {limit}): the documents that hold every term of the
\* query as a word prefix, in the order of the first term's list.
FlexSearch(map, query, limit) ==
    LET words == FlexEncode(query)
        terms == IF Len(words) > 1
                 THEN LongestFirst(Dedupe(SelectSeq(words, LAMBDA w : w # <<>>)))
                 ELSE words
    IN  IF terms = <<>> THEN <<>>
        ELSE LET all == {id \in Range(FlexLookup(map, terms[1])) :
                            \A k \in 1..Len(terms) : id \in Range(FlexLookup(map, terms[k]))}
             IN  slice(SelectSeqBy(FlexLookup(map, terms[1]), all), 0, limit)

(***************************************************************************)
(* Search index creation.                                                  *)
(***************************************************************************)
\* The IndexedDocument createSearchIndex derives from documents[id + 1].
IndexedDocument(doc, id) ==
    [id |-> id, slug |-> doc.slug, title |-> doc.title, path |-> doc.path,
     content |-> stripMarkdown(doc.content), tags |-> doc.tags,
     headings |-> extractHeadings(doc.content)]

\* createSearchIndex with documentMap.set under the test that guards
\* tagIndex.add: a document without tags is indexed by title and content
\* and left out of the documents table after the first such document.
createSearchIndexSkippingTable(docs) ==
    LET table == [k \in 1..Len(docs) |-> IndexedDocument(docs[k], k - 1)]
        kept == IF Len(docs) > 1 /\ docs[Len(docs)].tags = <<>>
                THEN SubSeq(table, 1, Len(docs) - 1) ELSE table
    IN  [built |-> TRUE,
         titleIndex |-> FlexIndexOf([k \in 1..Len(docs) |->
                            [added |-> TRUE, text |-> docs[k].title]]),
         contentIndex |-> FlexIndexOf([k \in 1..Len(docs) |->
                            [added |-> TRUE, text |-> table[k].content]]),
         tagIndex |-> FlexIndexOf([k \in 1..Len(docs) |->
                            [added |-> Len(table[k].tags) > 0, text |-> joinSpace(table[k].tags)]]),
         headingIndex |-> FlexIndexOf([k \in 1..Len(docs) |->
                            [added |-> Len(table[k].headings) > 0,
                             text |-> joinSpace(table[k].headings)]]),
         documents |-> kept]

\* createSearchIndex: the documents table holds the IndexedDocument of id
\* i at position i + 1; tags and headings are indexed only when not empty.
createSearchIndex(docs) ==
    LET table == [k \in 1..Len(docs) |-> IndexedDocument(docs[k], k - 1)]
    IN  [built |-> TRUE,
         titleIndex |-> FlexIndexOf([k \in 1..Len(docs) |->
                            [added |-> TRUE, text |-> docs[k].title]]),
         contentIndex |-> FlexIndexOf([k \in 1..Len(docs) |->
                            [added |-> TRUE, text |-> table[k].content]]),
         tagIndex |-> FlexIndexOf([k \in 1..Len(docs) |->
                            [added |-> Len(table[k].tags) > 0, text |-> joinSpace(table[k].tags)]]),
         headingIndex |-> FlexIndexOf([k \in 1..Len(docs) |->
                            [added |-> Len(table[k].headings) > 0,
                             text |-> joinSpace(table[k].headings)]]),
         documents |-> table]

(***************************************************************************)
(* Search implementation.  Weights and scores are exact fractions          *)
(* [n, d] standing for n / d.                                              *)
(***************************************************************************)
RECURSIVE Gcd(_, _)
Gcd(a, b) == IF b = 0 THEN a ELSE Gcd(b, a % b)

\* n / d in lowest terms (d > 0, n >= 0).
Frac(n, d) == LET g == Gcd(n, d) IN [n |-> n \div g, d |-> d \div g]
FracAdd(a, b) == Frac(a.n * b.d + b.n * a.d, a.d * b.d)
FracMul(a, b) == Frac(a.n * b.n, a.d * b.d)
FracGeq(a, b) == a.n * b.d >= b.n * a.d

\* WEIGHTS.
WEIGHTS == [title |-> Frac(30, 10), tags |-> Frac(25, 10),
            headings |-> Frac(20, 10), content |-> Frac(10, 10)]

\* The factor of a match found by the Korean pass.
KoreanFactor == Frac(8, 10)

\* The probe limits of search, the content prefix the Korean pass reads
\* and the defaults of the options and of maxLength.
TitleProbeLimit == 50
TagProbeLimit == 50
HeadingProbeLimit == 50
ContentProbeLimit == 100
KoreanContentLimit == 5000
DefaultLimit == 20
DefaultThreshold == Frac(3, 10)
DefaultMaxLength == 150
DefaultSuggestionLimit == 5

DefaultOptions == [limit |-> DefaultLimit, fuzzy |-> TRUE, threshold |-> DefaultThreshold]

CharsOf(s) == Range(s)

\* calculateSimilarity dividing by the smaller character set.
calculateSimilarityMin(str1, str2) ==
    LET s1 == toLowerCase(str1)
        s2 == toLowerCase(str2)
        chars1 == CharsOf(s1)
        chars2 == CharsOf(s2)
        overlap == Cardinality(chars1 \cap chars2)
    IN  IF s1 = s2 THEN Frac(1, 1)
        ELSE IF includes(s1, s2) \/ includes(s2, s1) THEN Frac(9, 10)
        ELSE Frac(overlap, Max(1, Min(Cardinality(chars1), Cardinality(chars2))))

\* calculateSimilarity.
calculateSimilarity(str1, str2) ==
    LET s1 == toLowerCase(str1)
        s2 == toLowerCase(str2)
        chars1 == CharsOf(s1)
        chars2 == CharsOf(s2)
        overlap == Cardinality(chars1 \cap chars2)
    IN  IF s1 = s2 THEN Frac(1, 1)
        ELSE IF includes(s1, s2) \/ includes(s2, s1) THEN Frac(9, 10)
        ELSE Frac(overlap, Max(Cardinality(chars1), Cardinality(chars2)))

\* The position of the first word at which the loop breaks, or 0: hits[i]
\* tells whether the test of the loop body succeeds on the i-th word.
FirstWord(hits) ==
    LET at == {i \in 1..Len(hits) : hits[i]}
    IN  IF at = {} THEN 0 ELSE CHOOSE i \in at : \A j \in at : i <= j

Ellipsis == <<DOT, DOT, DOT>>

\* The match position extractExcerpt settles on, or -1.
ExcerptMatchIndex(content, query) ==
    LET direct == indexOf(toLowerCase(content), toLowerCase(query), 0)
        words == splitSpaces(content)
        \* a throw inside the loop body is caught and the loop continues
        byChosung ==
            IF direct = -1 /\ isChosungOnly(query) /\ ~Throws("getChoseong")
            THEN LET w == FirstWord([i \in 1..Len(words) |-> chosungIncludes(words[i], query)])
                 IN  IF w = 0 THEN -1 ELSE indexOf(content, words[w], 0)
            ELSE direct
        \* a throw anywhere in the block is caught and ends the block
        byDisassembly ==
            IF byChosung = -1 /\ containsKorean(query) /\ ~Throws("disassemble")
            THEN LET queryDisassembled == disassemble(query)
                     w == FirstWord([i \in 1..Len(words) |->
                              includes(toLowerCase(disassemble(words[i])),
                                       toLowerCase(queryDisassembled))])
                 IN  IF w = 0 THEN -1 ELSE indexOf(content, words[w], 0)
            ELSE byChosung
    IN  byDisassembly

\* extractExcerpt moving its left edge to the next space wherever that
\* space lies, before the match or after it.
extractExcerptSnapAlways(content, query, maxLength) ==
    LET matchIndex == ExcerptMatchIndex(content, query)
        halfLength == maxLength \div 2
        start0 == Max(0, matchIndex - halfLength)
        end0 == Min(Len(content), matchIndex + Len(query) + halfLength)
        spaceAfter == indexOf(content, <<SP>>, start0)
        start == IF start0 > 0 /\ spaceAfter # -1 THEN spaceAfter + 1 ELSE start0
        spaceBefore == lastIndexOf(content, <<SP>>, end0)
        end == IF end0 < Len(content) /\ spaceBefore # -1 /\ spaceBefore > matchIndex
               THEN spaceBefore ELSE end0
    IN  IF matchIndex = -1
        THEN slice(content, 0, maxLength)
                 \o (IF Len(content) > maxLength THEN Ellipsis ELSE <<>>)
        ELSE (IF start > 0 THEN Ellipsis ELSE <<>>)
                 \o slice(content, start, end)
                 \o (IF end < Len(content) THEN Ellipsis ELSE <<>>)

\* extractExcerpt.
extractExcerpt(content, query, maxLength) ==
    LET matchIndex == ExcerptMatchIndex(content, query)
        halfLength == maxLength \div 2
        start0 == Max(0, matchIndex - halfLength)
        end0 == Min(Len(content), matchIndex + Len(query) + halfLength)
        spaceAfter == indexOf(content, <<SP>>, start0)
        start == IF start0 > 0 /\ spaceAfter # -1 /\ spaceAfter < matchIndex
                 THEN spaceAfter + 1 ELSE start0
        spaceBefore == lastIndexOf(content, <<SP>>, end0)
        end == IF end0 < Len(content) /\ spaceBefore # -1 /\ spaceBefore > matchIndex
               THEN spaceBefore ELSE end0
    IN  IF matchIndex = -1
        THEN slice(content, 0, maxLength)
                 \o (IF Len(content) > maxLength THEN Ellipsis ELSE <<>>)
        ELSE (IF start > 0 THEN Ellipsis ELSE <<>>)
                 \o slice(content, start, end)
                 \o (IF end < Len(content) THEN Ellipsis ELSE <<>>)

\* One addScore call.
Add(id, weight, field) == [id |-> id, weight |-> weight, field |-> field]

RECURSIVE AddsOf(_, _, _)
AddsOf(ids, weight, field) ==
    IF ids = <<>> THEN <<>>
    ELSE <<Add(Head(ids), weight, field)>> \o AddsOf(Tail(ids), weight, field)

\* The body of the loop over the query variants: the four probes.
ProbeAdds(idx, variant) ==
    AddsOf(FlexSearch(idx.titleIndex, variant, TitleProbeLimit), WEIGHTS.title, "title")
        \o AddsOf(FlexSearch(idx.tagIndex, variant, TagProbeLimit), WEIGHTS.tags, "tags")
        \o AddsOf(FlexSearch(idx.headingIndex, variant, HeadingProbeLimit),
                  WEIGHTS.headings, "headings")
        \o AddsOf(FlexSearch(idx.contentIndex, variant, ContentProbeLimit),
                  WEIGHTS.content, "content")

RECURSIVE VariantAdds(_, _)
VariantAdds(idx, variants) ==
    IF variants = <<>> THEN <<>>
    ELSE ProbeAdds(idx, Head(variants)) \o VariantAdds(idx, Tail(variants))

\* for (const x of list) { if (koreanMatch(x, query)) { ...; break; } }
RECURSIVE FirstMatch(_, _)
FirstMatch(list, query) ==
    IF list = <<>> THEN Ok(FALSE)
    ELSE LET m == koreanMatch(Head(list), query)
         IN  IF m.thrown THEN Thrown
             ELSE IF m.val THEN Ok(TRUE)
             ELSE FirstMatch(Tail(list), query)

\* The Korean pass on one document without the break of its loop over the
\* tags: every matching tag adds the weight.
KoreanDocAddsEveryTag(doc, query) ==
    LET t == koreanMatch(doc.title, query)
        g == SelectSeq(doc.tags, LAMBDA tag : koreanMatch(tag, query).val)
        h == FirstMatch(doc.headings, query)
        c == koreanMatch(slice(doc.content, 0, KoreanContentLimit), query)
    IN  IF t.thrown \/ h.thrown \/ c.thrown THEN Thrown
        ELSE Ok((IF t.val THEN <<Add(doc.id, FracMul(WEIGHTS.title, KoreanFactor), "title")>>
                 ELSE <<>>)
             \o [k \in 1..Len(g) |-> Add(doc.id, FracMul(WEIGHTS.tags, KoreanFactor), "tags")]
             \o (IF h.val
                 THEN <<Add(doc.id, FracMul(WEIGHTS.headings, KoreanFactor), "headings")>>
                 ELSE <<>>)
             \o (IF c.val
                 THEN <<Add(doc.id, FracMul(WEIGHTS.content, KoreanFactor), "content")>>
                 ELSE <<>>))

\* The Korean pass on one document.
KoreanDocAdds(doc, query) ==
    LET t == koreanMatch(doc.title, query)
        g == FirstMatch(doc.tags, query)
        h == FirstMatch(doc.headings, query)
        c == koreanMatch(slice(doc.content, 0, KoreanContentLimit), query)
    IN  IF t.thrown \/ g.thrown \/ h.thrown \/ c.thrown THEN Thrown
        ELSE Ok((IF t.val THEN <<Add(doc.id, FracMul(WEIGHTS.title, KoreanFactor), "title")>>
                 ELSE <<>>)
             \o (IF g.val THEN <<Add(doc.id, FracMul(WEIGHTS.tags, KoreanFactor), "tags")>>
                 ELSE <<>>)
             \o (IF h.val
                 THEN <<Add(doc.id, FracMul(WEIGHTS.headings, KoreanFactor), "headings")>>
                 ELSE <<>>)
             \o (IF c.val
                 THEN <<Add(doc.id, FracMul(WEIGHTS.content, KoreanFactor), "content")>>
                 ELSE <<>>))

RECURSIVE KoreanPass(_, _)
KoreanPass(docs, query) ==
    IF docs = <<>> THEN Ok(<<>>)
    ELSE LET first == KoreanDocAdds(Head(docs), query)
             rest == KoreanPass(Tail(docs), query)
         IN  IF first.thrown \/ rest.thrown THEN Thrown
             ELSE Ok(first.val \o rest.val)

\* The Korean-specific matching of search.
KoreanAdds(idx, query) ==
    IF containsKorean(query) \/ isChosungOnly(query)
    THEN KoreanPass(idx.documents, query)
    ELSE Ok(<<>>)

\* The fuzzy fallback of search, given the calls of addScore made before it.
RECURSIVE FuzzyPass(_, _, _)
FuzzyPass(docs, query, threshold) ==
    IF docs = <<>> THEN <<>>
    ELSE LET similarity == calculateSimilarity(Head(docs).title, query)
         IN  (IF FracGeq(similarity, threshold)
              THEN <<Add(Head(docs).id, FracMul(WEIGHTS.title, similarity), "title")>>
              ELSE <<>>) \o FuzzyPass(Tail(docs), query, threshold)

\* The fuzzy fallback with its condition on the scores inverted.
FuzzyAddsWhenScored(idx, query, options, before) ==
    IF options.fuzzy /\ before # <<>>
    THEN FuzzyPass(idx.documents, query, options.threshold)
    ELSE <<>>

\* The fuzzy fallback that does not read the fuzzy option.
FuzzyAddsAlways(idx, query, options, before) ==
    IF before = <<>>
    THEN FuzzyPass(idx.documents, query, options.threshold)
    ELSE <<>>

FuzzyAdds(idx, query, options, before) ==
    IF options.fuzzy /\ before = <<>>
    THEN FuzzyPass(idx.documents, query, options.threshold)
    ELSE <<>>

\* The scores map after the calls adds of addScore: its keys in insertion
\* order, and the score of a key.
\* The scores kept as a list with one entry for each call of addScore, in
\* the place of a Map keyed by id.
ScoredIdsWithRepeats(adds) == [k \in 1..Len(adds) |-> adds[k].id]

ScoredIds(adds) == Dedupe([k \in 1..Len(adds) |-> adds[k].id])

RECURSIVE ScoreOf(_, _)
ScoreOf(adds, id) ==
    IF adds = <<>> THEN Frac(0, 1)
    ELSE IF adds[Len(adds)].id = id
         THEN FracAdd(ScoreOf(SubSeq(adds, 1, Len(adds) - 1), id), adds[Len(adds)].weight)
         ELSE ScoreOf(SubSeq(adds, 1, Len(adds) - 1), id)

MaxPossibleScore ==
    FracAdd(FracAdd(WEIGHTS.title, WEIGHTS.tags), FracAdd(WEIGHTS.headings, WEIGHTS.content))

\* Math.round of the fraction f >= 0.
Round(f) == (2 * f.n + f.d) \div (2 * f.d)

\* The normalized score without its clamp.
NormalizedScoreUnclamped(score) ==
    Round(Frac(score.n * MaxPossibleScore.d * 100, score.d * MaxPossibleScore.n))

\* Math.min(100, Math.round((score / maxPossibleScore) * 100)).
NormalizedScore(score) ==
    Min(100, Round(Frac(score.n * MaxPossibleScore.d * 100, score.d * MaxPossibleScore.n)))

\* The sort with its comparison the other way round, (a, b) => a.score -
\* b.score: a stable sort, ascending.
RECURSIVE SortByScoreAscending(_)
SortByScoreAscending(rs) ==
    IF rs = <<>> THEN <<>>
    ELSE LET m == CHOOSE i \in 1..Len(rs) :
                    /\ \A j \in 1..Len(rs) : rs[j].score >= rs[i].score
                    /\ \A j \in 1..(i - 1) : rs[j].score > rs[i].score
         IN  <<rs[m]>> \o SortByScoreAscending(SubSeq(rs, 1, m - 1) \o SubSeq(rs, m + 1, Len(rs)))

\* A descending sort that is not stable: of the results with the highest
\* score it takes the last one first.
RECURSIVE SortByScoreUnstable(_)
SortByScoreUnstable(rs) ==
    IF rs = <<>> THEN <<>>
    ELSE LET m == CHOOSE i \in 1..Len(rs) :
                    /\ \A j \in 1..Len(rs) : rs[j].score <= rs[i].score
                    /\ \A j \in (i + 1)..Len(rs) : rs[j].score < rs[i].score
         IN  <<rs[m]>> \o SortByScoreUnstable(SubSeq(rs, 1, m - 1) \o SubSeq(rs, m + 1, Len(rs)))

\* results.sort((a, b) => b.score - a.score): a stable sort, descending.
RECURSIVE SortByScore(_)
SortByScore(rs) ==
    IF rs = <<>> THEN <<>>
    ELSE LET m == CHOOSE i \in 1..Len(rs) :
                    /\ \A j \in 1..Len(rs) : rs[j].score <= rs[i].score
                    /\ \A j \in 1..(i - 1) : rs[j].score < rs[i].score
         IN  <<rs[m]>> \o SortByScore(SubSeq(rs, 1, m - 1) \o SubSeq(rs, m + 1, Len(rs)))

\* The calls of addScore search makes, in order, as an outcome.
SearchAdds(idx, query, options) ==
    LET probed == VariantAdds(idx, normalizeKoreanQuery(trim(query)))
        korean == KoreanAdds(idx, query)
    IN  IF korean.thrown THEN Thrown
        ELSE LET before == probed \o korean.val
             IN  Ok(before \o FuzzyAdds(idx, query, options, before))

\* The SearchResult of the scored document id.
ResultOf(idx, adds, id, query) ==
    LET doc == idx.documents[id + 1]
    IN  [slug |-> doc.slug, title |-> doc.title, path |-> doc.path,
         excerpt |-> extractExcerpt(doc.content, query, DefaultMaxLength),
         score |-> NormalizedScore(ScoreOf(adds, id))]

\* const doc = index.documents.get(docId); if (!doc) return: the scored ids
\* the documents table has an entry for.
Resolved(idx, ids) == SelectSeq(ids, LAMBDA id : id + 1 \in DOMAIN idx.documents)

\* search past its guard, cutting the results to the limit before it sorts
\* them.
searchScoredCutFirst(idx, query, options) ==
    LET adds == SearchAdds(idx, query, options)
        probes == 4 * Len(normalizeKoreanQuery(trim(query)))
    IN  IF adds.thrown THEN [thrown |-> TRUE, val |-> <<>>, probes |-> probes]
        ELSE LET ids == Resolved(idx, ScoredIds(adds.val))
                 results == [k \in 1..Len(ids) |-> ResultOf(idx, adds.val, ids[k], query)]
             IN  [thrown |-> FALSE,
                  val |-> SortByScore(slice(results, 0, options.limit)),
                  probes |-> probes]

\* search past its guard: the results as an outcome, with the number of
\* index probes made.
searchScored(idx, query, options) ==
    LET adds == SearchAdds(idx, query, options)
        probes == 4 * Len(normalizeKoreanQuery(trim(query)))
    IN  IF adds.thrown THEN [thrown |-> TRUE, val |-> <<>>, probes |-> probes]
        ELSE LET ids == Resolved(idx, ScoredIds(adds.val))
                 results == [k \in 1..Len(ids) |-> ResultOf(idx, adds.val, ids[k], query)]
             IN  [thrown |-> FALSE,
                  val |-> slice(SortByScore(results), 0, options.limit),
                  probes |-> probes]

\* search that returns early for the empty string only.
searchUntrimmedGuard(idx, query, options) ==
    IF query = <<>> THEN [thrown |-> FALSE, val |-> <<>>, probes |-> 0]
    ELSE searchScored(idx, query, options)

\* search.
search(idx, query, options) ==
    IF trim(query) = <<>> THEN [thrown |-> FALSE, val |-> <<>>, probes |-> 0]
    ELSE searchScored(idx, query, options)

\* The condition under which getSuggestions keeps a title or a tag.
Suggests(text, query) ==
    includes(toLowerCase(text), toLowerCase(query)) \/ koreanMatch(text, query).val

RECURSIVE TitleSuggestions(_, _)
TitleSuggestions(docs, query) ==
    IF docs = <<>> THEN <<>>
    ELSE (IF Suggests(Head(docs).title, query) THEN <<Head(docs).title>> ELSE <<>>)
             \o TitleSuggestions(Tail(docs), query)

RECURSIVE TagSuggestions(_, _)
TagSuggestions(docs, query) ==
    IF docs = <<>> THEN <<>>
    ELSE SelectSeq(Head(docs).tags, LAMBDA tag : Suggests(tag, query))
             \o TagSuggestions(Tail(docs), query)

\* getSuggestions without its test of the length of the query.
getSuggestionsAnyLength(idx, query, limit) ==
    IF trim(query) = <<>> THEN <<>>
    ELSE slice(Dedupe(TitleSuggestions(idx.documents, query)
                          \o TagSuggestions(idx.documents, query)), 0, limit)

\* getSuggestions with an array in the place of its Set of suggestions.
getSuggestionsWithRepeats(idx, query, limit) ==
    IF trim(query) = <<>> \/ Len(query) < 2 THEN <<>>
    ELSE slice(TitleSuggestions(idx.documents, query)
                   \o TagSuggestions(idx.documents, query), 0, limit)

\* getSuggestions.
getSuggestions(idx, query, limit) ==
    IF trim(query) = <<>> \/ Len(query) < 2 THEN <<>>
    ELSE slice(Dedupe(TitleSuggestions(idx.documents, query)
                          \o TagSuggestions(idx.documents, query)), 0, limit)

(***************************************************************************)
(* The corpus and the inputs of the model.                                 *)
(***************************************************************************)
Titles == StringsUpTo(Alphabet, MaxTitleLen)
Queries == StringsUpTo(Alphabet, MaxQueryLen)

\* The tags and the markdown body a document of the model comes with.
Kinds ==
    {[tags |-> <<>>, content |-> <<>>],
     [tags |-> <<<<"b">>, <<GA, "a">>>>, content |-> <<HASH, SP, "a", NL, GA, SP, "b">>],
     [tags |-> <<<<GA>>, <<GA, "a">>>>, content |-> <<HASH, SP, GA, NL, HASH, SP, GA, "b">>]}

DocumentOf(k, title, tags, content) ==
    [slug |-> <<"s", k>>, title |-> title, path |-> <<"p", k>>,
     content |-> content, tags |-> tags]

\* The documents that follow the first one of a corpus.
Others ==
    {[title |-> <<"a", "b">>, tags |-> <<>>, content |-> <<>>],
     [title |-> <<GA>>, tags |-> <<>>, content |-> <<JG, SP, "a">>],
     [title |-> <<"a", SP, JG>>, tags |-> <<<<JG>>>>, content |-> <<>>]}

\* The corpora of n documents: any title for the first document.
RECURSIVE CorporaOf(_)
CorporaOf(n) ==
    IF n = 1 THEN {<<DocumentOf(0, t, k.tags, k.content)>> : t \in Titles, k \in Kinds}
    ELSE {Append(c, DocumentOf(n - 1, o.title, o.tags, o.content)) :
              c \in {d \in CorporaOf(n - 1) : d[1].tags = <<>>}, o \in Others}

\* The titles of a corpus larger than the default limit of search.
CrowdTitles == {<<GA>>, <<"a", "b">>, <<GA, "a", "b">>}

\* A corpus of DefaultLimit + 1 documents: the last one titled last, the
\* others titled title.
Crowd(title, last) ==
    [k \in 1..(DefaultLimit + 1) |->
        DocumentOf(k - 1, IF k = DefaultLimit + 1 THEN last ELSE title, <<>>, <<>>)]

Corpora ==
    UNION {CorporaOf(n) : n \in 1..MaxDocs}
        \cup {Crowd(t, u) : t \in CrowdTitles, u \in CrowdTitles}

OptionSets ==
    {DefaultOptions,
     [limit |-> DefaultLimit, fuzzy |-> FALSE, threshold |-> DefaultThreshold],
     [limit |-> 1, fuzzy |-> TRUE, threshold |-> Frac(0, 10)]}

Init ==
    /\ documents \in Corpora
    /\ index = NoIndex
    /\ hangulFault = {}
    /\ call = [op |-> "none"]
    /\ outcome = Ok(<<>>)
    /\ store = InitialStore
    /\ tasks = NoTasks
    /\ localStorage = NoItem

\* The caller is single-threaded (section 5): a call is made when no call
\* is being answered.
Idle == call.op = "none"

\* createSearchIndex(documents).
CreateSearchIndex ==
    /\ Idle
    /\ index' = createSearchIndex(documents)
    /\ call' = [op |-> "createSearchIndex"]
    /\ outcome' = Ok(<<>>)
    /\ UNCHANGED <<documents, hangulFault, store, tasks, localStorage>>

\* search that cuts the documents table of the index, instead of its own
\* list of results, down to the limit.
SearchCuttingTable ==
    /\ Idle
    /\ index.built
    /\ \E query \in Queries, options \in OptionSets :
          /\ call' = [op |-> "search", query |-> query, options |-> options]
          /\ outcome' = search(index, query, options)
          /\ index' = [index EXCEPT !.documents = slice(index.documents, 0, options.limit)]
    /\ UNCHANGED <<documents, hangulFault, store, tasks, localStorage>>

\* search(index, query, options).
Search ==
    /\ Idle
    /\ index.built
    /\ \E query \in Queries, options \in OptionSets :
          /\ call' = [op |-> "search", query |-> query, options |-> options]
          /\ outcome' = search(index, query, options)
    /\ UNCHANGED <<documents, index, hangulFault, store, tasks, localStorage>>

\* getSuggestions(index, query, limit).
GetSuggestions ==
    /\ Idle
    /\ index.built
    /\ \E query \in Queries, limit \in {1, DefaultSuggestionLimit} :
          /\ call' = [op |-> "getSuggestions", query |-> query, limit |-> limit]
          /\ outcome' = Ok(getSuggestions(index, query, limit))
    /\ UNCHANGED <<documents, index, hangulFault, store, tasks, localStorage>>

\* The caller takes the value returned.
Return ==
    /\ ~Idle
    /\ call' = [op |-> "none"]
    /\ outcome' = Ok(<<>>)
    /\ UNCHANGED <<documents, index, hangulFault, store, tasks, localStorage>>

Next == CreateSearchIndex \/ Search \/ GetSuggestions \/ Return

Spec == Init /\ [][Next]_vars

(***************************************************************************)
(* extractExcerpt on its own: contents, queries and maxLength drawn from   *)
(* bounded sets.                                                           *)
(***************************************************************************)
MaxContentLen == 5
MaxExcerptLength == 3

ExcerptAlphabet == {"a", SP, GA, JG}
ExcerptContents == StringsUpTo(ExcerptAlphabet, MaxContentLen)
ExcerptQueries == StringsUpTo(ExcerptAlphabet, MaxQueryLen)

InitExcerpt ==
    /\ documents = <<>>
    /\ index = NoIndex
    /\ hangulFault = {}
    /\ call = [op |-> "none"]
    /\ outcome = Ok(<<>>)
    /\ store = InitialStore
    /\ tasks = NoTasks
    /\ localStorage = NoItem

\* extractExcerpt(content, query, maxLength).
ExtractExcerpt ==
    /\ Idle
    /\ \E content \in ExcerptContents, query \in ExcerptQueries, maxLength \in 0..MaxExcerptLength :
          /\ call' = [op |-> "extractExcerpt", content |-> content, query |-> query,
                      maxLength |-> maxLength]
          /\ outcome' = Ok(extractExcerpt(content, query, maxLength))
    /\ UNCHANGED <<documents, index, hangulFault, store, tasks, localStorage>>

NextExcerpt == ExtractExcerpt \/ Return

SpecExcerpt == InitExcerpt /\ [][NextExcerpt]_vars

(***************************************************************************)
(* koreanMatch on its own: texts and queries drawn from bounded sets.      *)
(***************************************************************************)
MaxTextLen == 2

MatchAlphabet == {"a", "A", GA, AG, JG}
MatchTexts == StringsUpTo(MatchAlphabet, MaxTextLen)
MatchQueries == StringsUpTo(MatchAlphabet, MaxQueryLen)

InitMatch ==
    /\ documents = <<>>
    /\ index = NoIndex
    /\ hangulFault = {}
    /\ call = [op |-> "none"]
    /\ outcome = Ok(<<>>)
    /\ store = InitialStore
    /\ tasks = NoTasks
    /\ localStorage = NoItem

\* koreanMatch(text, query).
KoreanMatch ==
    /\ Idle
    /\ \E text \in MatchTexts, query \in MatchQueries :
          /\ call' = [op |-> "koreanMatch", text |-> text, query |-> query]
          /\ outcome' = koreanMatch(text, query)
    /\ UNCHANGED <<documents, index, hangulFault, store, tasks, localStorage>>

NextMatch == KoreanMatch \/ Return

SpecMatch == InitMatch /\ [][NextMatch]_vars

(***************************************************************************)
(* stripMarkdown on its own: a link or an image with text on both sides.   *)
(***************************************************************************)
MaxAroundLen == 2

\* An image, an image without alt text, a link, and plain text.
MarkdownPieces ==
    {<<"!", "[", "a", "]", "(", "u", ")">>,
     <<"!", "[", "]", "(", "u", ")">>,
     <<"[", "a", "]", "(", "u", ")">>,
     <<"a">>}
MarkdownContents ==
    {pre \o piece \o post : pre \in StringsUpTo({"b", SP, NL}, MaxAroundLen),
                            piece \in MarkdownPieces,
                            post \in StringsUpTo({"b", SP, NL}, MaxAroundLen)}

InitStrip ==
    /\ documents = <<>>
    /\ index = NoIndex
    /\ hangulFault = {}
    /\ call = [op |-> "none"]
    /\ outcome = Ok(<<>>)
    /\ store = InitialStore
    /\ tasks = NoTasks
    /\ localStorage = NoItem

\* stripMarkdown(content).
StripMarkdown ==
    /\ Idle
    /\ \E content \in MarkdownContents :
          /\ call' = [op |-> "stripMarkdown", content |-> content]
          /\ outcome' = Ok(stripMarkdown(content))
    /\ UNCHANGED <<documents, index, hangulFault, store, tasks, localStorage>>

NextStrip == StripMarkdown \/ Return

SpecStrip == InitStrip /\ [][NextStrip]_vars

(***************************************************************************)
(* The engine with an es-hangul that throws: every call of the functions   *)
(* in hangulFault raises.                                                  *)
(***************************************************************************)
InitFault ==
    /\ documents \in {c \in CorporaOf(1) : containsKorean(c[1].title)}
    /\ index = NoIndex
    /\ hangulFault \in (SUBSET {"disassemble", "getChoseong"}) \ {{}}
    /\ call = [op |-> "none"]
    /\ outcome = Ok(<<>>)
    /\ store = InitialStore
    /\ tasks = NoTasks
    /\ localStorage = NoItem

SpecFault == InitFault /\ [][Next]_vars

(***************************************************************************)
(* The search store.  Its actions run as JavaScript tasks: a callback      *)
(* handed to queueMicrotask runs before the next task starts, and the      *)
(* callback handed to requestIdleCallback / setTimeout is a task of its    *)
(* own, so doIndex never starts while a doSearch is waiting.               *)
(***************************************************************************)
MaxPending == 1
MaxBuilds == 2

StoreSearchLimit == 20
StoreSearchOptions ==
    [limit |-> StoreSearchLimit, fuzzy |-> TRUE, threshold |-> DefaultThreshold]

\* The corpora handed to indexDocuments and the queries typed.
StoreCorpora == {c \in CorporaOf(2) : c[1].title \in {<<"a", "b">>, <<GA>>} /\ c[2].title # <<"a", "b">>}
StoreQueries == {q \in Queries : Len(q) <= 1} \cup {<<"a", "b">>}

\* The indices createSearchIndex builds from these corpora.
CompleteIndices == {createSearchIndex(c) : c \in StoreCorpora}

InitStore ==
    /\ documents = <<>>
    /\ index = NoIndex
    /\ hangulFault = {}
    /\ call = [op |-> "none"]
    /\ outcome = Ok(<<>>)
    /\ store = InitialStore
    /\ tasks = NoTasks
    /\ localStorage = NoItem

\* indexDocuments(documents): doIndex is scheduled, not run.
IndexDocuments ==
    /\ Len(tasks.idle) < MaxBuilds
    /\ \E docs \in StoreCorpora :
          /\ documents' = docs
          /\ tasks' = [tasks EXCEPT !.idle = Append(@, docs)]
    /\ store' = [store EXCEPT !.isIndexing = TRUE]
    /\ UNCHANGED <<index, hangulFault, call, outcome, localStorage>>

\* doIndex that publishes the index when only the first document is in it.
DoIndexPublishingEarly ==
    /\ tasks.micro = <<>>
    /\ tasks.idle # <<>>
    /\ store' = [store EXCEPT !.index = createSearchIndex(SubSeq(Head(tasks.idle), 1, 1)),
                              !.isIndexing = FALSE]
    /\ tasks' = [tasks EXCEPT !.idle = Tail(@)]
    /\ UNCHANGED <<documents, index, hangulFault, call, outcome, localStorage>>

\* doIndex, the callback of indexDocuments: the index is built, then set.
DoIndex ==
    /\ tasks.micro = <<>>
    /\ tasks.idle # <<>>
    /\ store' = [store EXCEPT !.index = createSearchIndex(Head(tasks.idle)),
                              !.isIndexing = FALSE]
    /\ tasks' = [tasks EXCEPT !.idle = Tail(@)]
    /\ UNCHANGED <<documents, index, hangulFault, call, outcome, localStorage>>

\* performSearch(query) on the store st: the store it leaves, and the
\* doSearch it schedules (none when it returns early).
PerformSearch(st, query) ==
    IF trim(query) = <<>>
    THEN [store |-> [st EXCEPT !.results = <<>>, !.isSearching = FALSE, !.selectedIndex = 0],
          scheduled |-> <<>>]
    ELSE IF ~st.index.built
    THEN [store |-> [st EXCEPT !.results = <<>>, !.isSearching = FALSE],
          scheduled |-> <<>>]
    ELSE [store |-> [st EXCEPT !.isSearching = TRUE],
          scheduled |-> <<[index |-> st.index, query |-> query]>>]

\* setQuery(query).
SetQuery ==
    /\ \E query \in StoreQueries :
          LET done == PerformSearch([store EXCEPT !.query = query], query)
          IN  /\ Len(tasks.micro) + Len(done.scheduled) <= MaxPending
              /\ store' = done.store
              /\ tasks' = [tasks EXCEPT !.micro = @ \o done.scheduled]
    /\ UNCHANGED <<documents, index, hangulFault, call, outcome, localStorage>>

\* doSearch, the callback of performSearch, on the index and the query it
\* was scheduled with.
DoSearch ==
    /\ tasks.micro # <<>>
    /\ LET job == Head(tasks.micro)
       IN  store' = [store EXCEPT
                        !.results = search(job.index, job.query, StoreSearchOptions).val,
                        !.isSearching = FALSE,
                        !.selectedIndex = 0]
    /\ tasks' = [tasks EXCEPT !.micro = Tail(@)]
    /\ UNCHANGED <<documents, index, hangulFault, call, outcome, localStorage>>

\* openSearch().
OpenSearch ==
    /\ store' = [store EXCEPT !.isOpen = TRUE, !.selectedIndex = 0]
    /\ UNCHANGED <<documents, index, hangulFault, call, outcome, tasks, localStorage>>

\* closeSearch().
CloseSearch ==
    /\ store' = [store EXCEPT !.isOpen = FALSE, !.query = <<>>, !.results = <<>>,
                              !.selectedIndex = 0]
    /\ UNCHANGED <<documents, index, hangulFault, call, outcome, tasks, localStorage>>

NextStore ==
    IndexDocuments \/ DoIndex \/ SetQuery \/ DoSearch \/ OpenSearch \/ CloseSearch

SpecStore == InitStore /\ [][NextStore]_vars

(***************************************************************************)
(* The store with its navigation and its recent searches.                  *)
(***************************************************************************)
MAX_RECENT_SEARCHES == 10

\* selectNext().
SelectNext ==
    /\ LET items == IF trim(store.query) # <<>> THEN store.results ELSE store.recentSearches
           maxIndex == Len(items) - 1
       IN  store' = [store EXCEPT !.selectedIndex = Min(store.selectedIndex + 1, maxIndex)]
    /\ UNCHANGED <<documents, index, hangulFault, call, outcome, tasks, localStorage>>

\* selectPrevious().
SelectPrevious ==
    /\ store' = [store EXCEPT !.selectedIndex = Max(store.selectedIndex - 1, 0)]
    /\ UNCHANGED <<documents, index, hangulFault, call, outcome, tasks, localStorage>>

\* recentSearches.filter((s) => s !== query).
Without(list, query) == SelectSeq(list, LAMBDA s : s # query)

\* addToRecent without its slice(0, MAX_RECENT_SEARCHES).
addToRecentUncut(recentSearches, query) == <<query>> \o Without(recentSearches, query)

\* The list addToRecent(query) leaves, given the list it finds.
addToRecent(recentSearches, query) ==
    slice(<<query>> \o Without(recentSearches, query), 0, MAX_RECENT_SEARCHES)

\* loadRecentSearches(): the stored list, when there is one, cut to
\* MAX_RECENT_SEARCHES.
LoadRecentSearches ==
    /\ store' = IF localStorage.present
                THEN [store EXCEPT !.recentSearches =
                                       slice(localStorage.json, 0, MAX_RECENT_SEARCHES)]
                ELSE store
    /\ UNCHANGED <<documents, index, hangulFault, call, outcome, tasks, localStorage>>

\* The queries that fill the recent searches: k times the letter a, for k
\* up to MaxRecentQueries.
MaxRecentQueries == 10
RecentQuery(k) == [i \in 1..k |-> "a"]

\* The queries that are searched for again and taken off the list at any
\* time.
RevisitedQueries == {<<"b">>, <<"a", "b">>}

\* The queries addToRecent and removeFromRecent are called with: a blank
\* one, the revisited ones, and the filling query one letter longer than
\* those in the list.
RecentInputs ==
    LET filled == {k \in 1..MaxRecentQueries :
                      RecentQuery(k) \in Range(store.recentSearches)}
        next == IF filled = {} THEN 1
                ELSE 1 + CHOOSE k \in filled : \A j \in filled : j <= k
    IN  {<<SP>>} \cup RevisitedQueries
            \cup (IF next <= MaxRecentQueries THEN {RecentQuery(next)} ELSE {})

\* addToRecent(query).
AddToRecent ==
    /\ \E query \in RecentInputs :
          /\ call' = [op |-> "addToRecent", query |-> query]
          /\ IF trim(query) = <<>>
             THEN UNCHANGED <<store, localStorage>>
             ELSE LET updated == addToRecent(store.recentSearches, query)
                  IN  /\ store' = [store EXCEPT !.recentSearches = updated]
                      /\ localStorage' = Item(updated)
    /\ UNCHANGED <<documents, index, hangulFault, outcome, tasks>>

\* removeFromRecent(query).
RemoveFromRecent ==
    /\ \E query \in RecentInputs :
          LET updated == Without(store.recentSearches, query)
          IN  /\ call' = [op |-> "removeFromRecent", query |-> query]
              /\ store' = [store EXCEPT !.recentSearches = updated]
              /\ localStorage' = Item(updated)
    /\ UNCHANGED <<documents, index, hangulFault, outcome, tasks>>

\* clearRecent().
ClearRecent ==
    /\ call' = [op |-> "clearRecent"]
    /\ store' = [store EXCEPT !.recentSearches = <<>>]
    /\ localStorage' = NoItem
    /\ UNCHANGED <<documents, index, hangulFault, outcome, tasks>>

NextRecent == AddToRecent \/ RemoveFromRecent \/ ClearRecent

\* The recent searches start from the empty list of a new store.
SpecRecent == InitStore /\ [][NextRecent]_vars

\* The store when the search modal is first used: no index yet or the index
\* of a corpus, and the recent searches an earlier session has stored.
InitNav ==
    /\ documents = <<>>
    /\ index = NoIndex
    /\ hangulFault = {}
    /\ call = [op |-> "none"]
    /\ outcome = Ok(<<>>)
    /\ \E idx \in {NoIndex} \cup CompleteIndices : store = [InitialStore EXCEPT !.index = idx]
    /\ tasks = NoTasks
    /\ localStorage \in {NoItem, Item(<<(<<"b">>)>>), Item(<<(<<"b">>), <<"a", "b">>>>)}

NextNav ==
    \/ OpenSearch \/ CloseSearch \/ SetQuery \/ DoSearch
    \/ SelectNext \/ SelectPrevious \/ RemoveFromRecent \/ LoadRecentSearches

SpecNav == InitNav /\ [][NextNav]_vars

(***************************************************************************)
(* Claims.  A claim about a call is stated on the state in which the call  *)
(* has been answered: call holds its arguments, outcome what it returned.  *)
(***************************************************************************)
SearchCalled == call.op = "search"
Returned(slug) == \E k \in 1..Len(outcome.val) : outcome.val[k].slug = slug

\* The calls of addScore made by the token-index probes and the Korean pass
\* of the call that has been answered.
ProbedAndKorean ==
    VariantAdds(index, normalizeKoreanQuery(trim(call.query)))
        \o KoreanAdds(index, call.query).val

\* C1 as stated: with the default options, every document whose title has
\* the query (two characters or more) as a substring is returned.  Blank
\* substrings, for which search returns nothing at all, are left out here:
\* the statement fails even without them.
C1_TitleSubstringReturned ==
    (SearchCalled /\ call.options = DefaultOptions /\ Len(call.query) >= 2
        /\ trim(call.query) # <<>>)
        => \A k \in 1..Len(documents) :
               includes(documents[k].title, call.query) => Returned(documents[k].slug)

\* The number of documents the answered call has scored.
ScoredCount == Len(ScoredIds(SearchAdds(index, call.query, call.options).val))

\* C1 as amended: with the default options, a document whose title has the
\* query (two characters or more, not blank) as a substring is returned
\* when the token-index probes or the Korean pass score it, or score no
\* document at all, and no more documents are scored than the limit lets
\* through.
C1_TitleSubstringReturnedWhenScoredOrNoneIs ==
    (SearchCalled /\ call.options = DefaultOptions /\ Len(call.query) >= 2
        /\ trim(call.query) # <<>>)
        => \A k \in 1..Len(documents) :
               (/\ includes(documents[k].title, call.query)
                /\ \/ ProbedAndKorean = <<>>
                   \/ \E i \in 1..Len(ProbedAndKorean) : ProbedAndKorean[i].id = k - 1
                /\ ScoredCount <= call.options.limit)
                   => Returned(documents[k].slug)

\* C1's case: a title holds the query inside a word, nothing is scored by
\* the probes or the Korean pass, and the document is returned.
C1_Witness ==
    /\ SearchCalled /\ call.options = DefaultOptions /\ Len(call.query) >= 2
    /\ Len(documents) = 2
    /\ includes(documents[1].title, call.query)
    /\ ProbedAndKorean = <<>>
    /\ Returned(documents[1].slug)

\* The document at position k of the corpus is returned with a score above 0.
ReturnedWithScore(k) ==
    \E i \in 1..Len(outcome.val) :
        /\ outcome.val[i].slug = documents[k].slug
        /\ outcome.val[i].score > 0

\* C2 as stated: with the default options and a chosung-only query, every
\* document whose title's chosung string (getChoseong of the title)
\* contains the query is returned with a score above 0.
C2_ChosungTitleReturned ==
    (SearchCalled /\ call.options = DefaultOptions /\ isChosungOnly(call.query))
        => \A k \in 1..Len(documents) :
               includes(getChoseong(documents[k].title), call.query)
                   => ReturnedWithScore(k)

\* C2 as amended: with the default options and a chosung-only query, every
\* document whose title's chosung string contains the query is returned
\* with a score above 0 when no more documents are scored than the limit
\* lets through.
C2_ChosungTitleReturnedWithinLimit ==
    (SearchCalled /\ call.options = DefaultOptions /\ isChosungOnly(call.query))
        => \A k \in 1..Len(documents) :
               (/\ includes(getChoseong(documents[k].title), call.query)
                /\ ScoredCount <= call.options.limit)
                   => ReturnedWithScore(k)

\* C2's case: a two-jamo chosung query found only through the chosung of
\* the title, which does not hold the query itself.
C2_Witness ==
    /\ SearchCalled /\ call.options = DefaultOptions
    /\ isChosungOnly(call.query) /\ Len(call.query) = 2
    /\ ~includes(documents[1].title, call.query)
    /\ includes(getChoseong(documents[1].title), call.query)
    /\ Returned(documents[1].slug)

\* C3: the string extractExcerpt returns has at most maxLength + 6
\* characters.  Stated for a maxLength of 2 or more: the statement fails
\* even with the smallest windows left out.
C3_ExcerptAtMostMaxLengthPlus6 ==
    (call.op = "extractExcerpt" /\ call.maxLength >= 2)
        => Len(outcome.val) <= call.maxLength + 6

\* C4: every result of search has an integer score between 0 and 100.
C4_ScoreInRange ==
    SearchCalled => \A i \in 1..Len(outcome.val) : outcome.val[i].score \in 0..100

\* The score of the document of id accumulated by the answered call.
RawScore(id) == ScoreOf(SearchAdds(index, call.query, call.options).val, id)

\* C4's case: a document whose accumulated weight exceeds the maximum
\* possible score is returned with score 100.
C4_Witness ==
    /\ SearchCalled
    /\ \E i \in 1..Len(outcome.val), k \in 1..Len(documents) :
          /\ outcome.val[i].slug = documents[k].slug
          /\ outcome.val[i].score = 100
          /\ ~FracGeq(MaxPossibleScore, RawScore(k - 1))

\* C5: a query that is empty or all white space makes search return the
\* empty sequence, having probed no index.
C5_BlankQueryReturnsNothing ==
    (SearchCalled /\ trim(call.query) = <<>>)
        => (~outcome.thrown /\ outcome.val = <<>> /\ outcome.probes = 0)

\* C5's case: a query of white space, on a corpus of two documents one of
\* which has a title holding that white space.
C5_Witness ==
    /\ SearchCalled
    /\ call.query # <<>> /\ trim(call.query) = <<>>
    /\ call.options.fuzzy
    /\ Len(documents) = 2
    /\ includes(documents[1].title, call.query)
    /\ outcome.val = <<>>

\* C6: with fuzzy off, a query that scores no document through the
\* token-index probes or the Korean pass returns the empty sequence.
C6_NoFuzzyNoMatchReturnsNothing ==
    (SearchCalled /\ trim(call.query) # <<>> /\ ~call.options.fuzzy /\ ProbedAndKorean = <<>>)
        => outcome.val = <<>>

\* The similarity of C7: 1 on equality, 9/10 on containment, else the
\* shared characters over the larger character set (case-insensitive).
Similarity(title, query) ==
    LET a == toLowerCase(title)
        b == toLowerCase(query)
    IN  IF a = b THEN Frac(1, 1)
        ELSE IF includes(a, b) \/ includes(b, a) THEN Frac(9, 10)
        ELSE Frac(Cardinality(Range(a) \cap Range(b)),
                  Max(Cardinality(Range(a)), Cardinality(Range(b))))

\* C6's case: fuzzy is off, nothing is probed, and a title is similar
\* enough to the query for the fallback to have scored it.
C6_Witness ==
    /\ SearchCalled /\ trim(call.query) # <<>> /\ ~call.options.fuzzy
    /\ ProbedAndKorean = <<>>
    /\ \E k \in 1..Len(documents) :
          FracGeq(Similarity(documents[k].title, call.query), call.options.threshold)
    /\ outcome.val = <<>>

\* The documents (positions in the corpus) at or above the threshold.
Similar == {k \in 1..Len(documents) :
               FracGeq(Similarity(documents[k].title, call.query), call.options.threshold)}

\* The results are n of the documents at or above the threshold, each with
\* title weight times similarity as its score.
FallbackAnswer(n) ==
    /\ Len(outcome.val) = n
    /\ \A i, j \in 1..Len(outcome.val) :
          outcome.val[i].slug = outcome.val[j].slug => i = j
    /\ \A i \in 1..Len(outcome.val) : \E k \in Similar :
          /\ outcome.val[i].slug = documents[k].slug
          /\ outcome.val[i].score =
                NormalizedScore(FracMul(WEIGHTS.title,
                    Similarity(documents[k].title, call.query)))

\* The results and their scores are those of the token-index probes and
\* the Korean pass alone.
ProbedAnswer ==
    /\ Len(outcome.val) = Min(call.options.limit, Len(ScoredIds(ProbedAndKorean)))
    /\ \A i \in 1..Len(outcome.val) : \E k \in 1..Len(documents) :
          /\ outcome.val[i].slug = documents[k].slug
          /\ outcome.val[i].score = NormalizedScore(ScoreOf(ProbedAndKorean, k - 1))
          /\ \E j \in 1..Len(ProbedAndKorean) : ProbedAndKorean[j].id = k - 1

\* C7 as stated (for a query that is not blank): when fuzzy is on and the
\* probes and the Korean pass scored nothing, the results are exactly the
\* documents at or above the threshold, each with title weight times
\* similarity as its score; otherwise the fallback contributes nothing.
C7_FuzzyFallbackReturnsAllSimilar ==
    (SearchCalled /\ trim(call.query) # <<>>)
        => IF call.options.fuzzy /\ ProbedAndKorean = <<>>
           THEN FallbackAnswer(Cardinality(Similar))
           ELSE ProbedAnswer

\* C7 as amended: when fuzzy is on and the probes and the Korean pass
\* scored nothing, the results are the documents at or above the threshold,
\* as many as the limit lets through, each with title weight times
\* similarity as its score; otherwise the fallback contributes nothing.
C7_FuzzyFallback ==
    (SearchCalled /\ trim(call.query) # <<>>)
        => IF call.options.fuzzy /\ ProbedAndKorean = <<>>
           THEN FallbackAnswer(Min(call.options.limit, Cardinality(Similar)))
           ELSE ProbedAnswer

\* C7's case: the fallback runs on two documents, one below the threshold
\* and one above it through shared characters only.
C7_Witness ==
    /\ SearchCalled /\ call.options = DefaultOptions
    /\ ProbedAndKorean = <<>>
    /\ Len(documents) = 2
    /\ Similar = {1}
    /\ LET a == toLowerCase(documents[1].title)
           b == toLowerCase(call.query)
       IN  a # b /\ ~includes(a, b) /\ ~includes(b, a)
    /\ Len(outcome.val) = 1

\* C8: getSuggestions returns the empty sequence for every query shorter
\* than two characters.
C8_ShortQueryNoSuggestions ==
    (call.op = "getSuggestions" /\ Len(call.query) < 2) => outcome.val = <<>>

\* C8's case: a query of one character that a title contains.
C8_Witness ==
    /\ call.op = "getSuggestions" /\ Len(call.query) = 1
    /\ \E k \in 1..Len(documents) : includes(documents[k].title, call.query)
    /\ outcome.val = <<>>

\* C10: search raises no exception, whichever es-hangul functions throw.
C10_SearchNeverThrows ==
    SearchCalled => ~outcome.thrown

\* C10's case: getChoseong throws, the query is chosung-only and the title
\* holds it only through its chosung; the attempt counts as a non-match.
C10_Witness ==
    /\ SearchCalled /\ ~outcome.thrown
    /\ "getChoseong" \in hangulFault
    /\ isChosungOnly(call.query)
    /\ ~includes(documents[1].title, call.query)
    /\ includes(getChoseong(documents[1].title), call.query)
    /\ ~Returned(documents[1].slug)

\* C11: a step that answers a search or a getSuggestions leaves the index
\* as it was, so it stays what createSearchIndex built whatever queries
\* are made, and the answer is the one the query gets from that index
\* alone.
C11_QueriesLeaveIndexUnchanged ==
    [][call'.op \in {"search", "getSuggestions"}
          => /\ index' = index
             /\ call'.op = "search"
                   => outcome' = search(index, call'.query, call'.options)
             /\ call'.op = "getSuggestions"
                   => outcome' = Ok(getSuggestions(index, call'.query, call'.limit))]_vars

\* C11's case: a search that scored a document through its title, its tags
\* and its content has been answered, and the index is the one
\* createSearchIndex built.
C11_Witness ==
    /\ SearchCalled
    /\ \A f \in {"title", "tags", "content"} :
          \E i \in 1..Len(ProbedAndKorean) : ProbedAndKorean[i].field = f
    /\ outcome.val # <<>>
    /\ index = createSearchIndex(documents)

\* C12: the index of the store changes only by a step that sets it to the
\* index createSearchIndex built from all the documents handed to
\* indexDocuments, and that step touches no scheduled search; every
\* scheduled search holds a completely built index, and when it runs its
\* results are those of search on that index.
C12_IndexSwappedWhole ==
    [][/\ store'.index # store.index
            => /\ tasks.idle # <<>>
               /\ store'.index = createSearchIndex(Head(tasks.idle))
               /\ tasks'.micro = tasks.micro
       /\ \A i \in 1..Len(tasks'.micro) : tasks'.micro[i].index \in CompleteIndices
       /\ Len(tasks'.micro) < Len(tasks.micro)
            => store'.results =
                   search(Head(tasks.micro).index, Head(tasks.micro).query,
                          StoreSearchOptions).val]_vars

\* C12's case: the store holds an index, a rebuild from another corpus has
\* been asked for and a search is scheduled against the index in use.
C12_Witness ==
    /\ store.index.built
    /\ tasks.idle # <<>>
    /\ store.index # createSearchIndex(Head(tasks.idle))
    /\ tasks.micro # <<>>
    /\ Head(tasks.micro).index = store.index

\* The normalized score the calls adds of addScore give the document id.
FinalScore(adds, id) == NormalizedScore(ScoreOf(adds, id))

\* C13: search returns at most limit results, each a scored document with
\* its score, and no scored document that is left out has a score above
\* that of a returned one.
C13_AtMostLimitHighestScoring ==
    (SearchCalled /\ trim(call.query) # <<>>)
        => LET adds == SearchAdds(index, call.query, call.options).val
               scored == Range(ScoredIds(adds))
               kept == {id \in scored : Returned(documents[id + 1].slug)}
           IN  /\ Len(outcome.val) <= call.options.limit
               /\ \A i \in 1..Len(outcome.val) : \E id \in scored :
                      /\ outcome.val[i].slug = documents[id + 1].slug
                      /\ outcome.val[i].score = FinalScore(adds, id)
               /\ \A out \in scored \ kept : \A id \in kept :
                      FinalScore(adds, out) <= FinalScore(adds, id)

\* C13's case: two documents are scored, the limit lets one through, and
\* the one returned is the second of the corpus, with the higher score.
C13_Witness ==
    /\ SearchCalled /\ call.options.limit = 1
    /\ Len(documents) = 2
    /\ ScoredCount = 2
    /\ Len(outcome.val) = 1
    /\ outcome.val[1].slug = documents[2].slug
    /\ NormalizedScore(RawScore(0)) < NormalizedScore(RawScore(1))

\* C14: the results of search are in descending order of score.
C14_DescendingScores ==
    SearchCalled
        => \A i \in 1..(Len(outcome.val) - 1) :
               outcome.val[i].score >= outcome.val[i + 1].score

\* C14's case: two results with different scores, the second document of
\* the corpus ahead of the first.
C14_Witness ==
    /\ SearchCalled
    /\ Len(documents) = 2 /\ Len(outcome.val) = 2
    /\ outcome.val[1].slug = documents[2].slug
    /\ outcome.val[1].score > outcome.val[2].score

SuggestionsCalled == call.op = "getSuggestions"

\* The titles and the tags of the documents given to createSearchIndex.
TitlesAndTags ==
    {documents[i].title : i \in 1..Len(documents)}
        \cup UNION {Range(documents[i].tags) : i \in 1..Len(documents)}

\* C15: for a query of two characters or more, every string getSuggestions
\* returns is a title or a tag of the index that contains the query, case
\* apart, or that koreanMatch accepts; no string is returned twice and at
\* most limit strings are returned.
C15_SuggestionsAreMatchingTitlesOrTags ==
    (SuggestionsCalled /\ Len(call.query) >= 2)
        => /\ \A i \in 1..Len(outcome.val) :
                  /\ outcome.val[i] \in TitlesAndTags
                  /\ \/ includes(toLowerCase(outcome.val[i]), toLowerCase(call.query))
                     \/ koreanMatch(outcome.val[i], call.query).val
           /\ \A i, j \in 1..Len(outcome.val) : outcome.val[i] = outcome.val[j] => i = j
           /\ Len(outcome.val) <= call.limit

\* C15's case: a title and a tag of the index both contain the query, and
\* the limit keeps the title alone.
C15_Witness ==
    /\ SuggestionsCalled /\ Len(call.query) = 2 /\ call.limit = 1
    /\ outcome.val = <<documents[1].title>>
    /\ \E s \in TitlesAndTags \ {documents[1].title} :
           includes(toLowerCase(s), toLowerCase(call.query))

\* The ids a token index holds.
IdsOf(map) == UNION {Range(map[tok]) : tok \in DOMAIN map}

\* The ids the documents table has an entry for.
TableIds == {index.documents[k].id : k \in DOMAIN index.documents}

\* C16: every id a token index of a built index holds has an entry in the
\* documents table, and search returns a result for every document it
\* scored, up to the limit.
C16_IndexedIdsResolve ==
    /\ index.built
          => /\ IdsOf(index.titleIndex) \subseteq TableIds
             /\ IdsOf(index.contentIndex) \subseteq TableIds
             /\ IdsOf(index.tagIndex) \subseteq TableIds
             /\ IdsOf(index.headingIndex) \subseteq TableIds
    /\ (SearchCalled /\ trim(call.query) # <<>>)
          => Len(outcome.val) = Min(call.options.limit, ScoredCount)

\* C16's case: each of the four token indices holds the id of a document,
\* and a search scored that document and returned it.
C16_Witness ==
    /\ SearchCalled
    /\ 0 \in IdsOf(index.titleIndex) /\ 0 \in IdsOf(index.contentIndex)
    /\ 0 \in IdsOf(index.tagIndex) /\ 0 \in IdsOf(index.headingIndex)
    /\ ScoredCount = 1 /\ Len(outcome.val) = 1
    /\ outcome.val[1].slug = documents[1].slug

\* The calls of addScore made by the probes of the token indices.
ProbeAddsOfCall == VariantAdds(index, normalizeKoreanQuery(trim(call.query)))

\* C17: for a chosung-only query normalizeKoreanQuery returns the list of
\* the query alone, search probes each of the four token indices once, and
\* the probes add the weight of a field at most once to a document.
C17_ChosungQueryOneVariant ==
    (SearchCalled /\ isChosungOnly(call.query))
        => /\ normalizeKoreanQuery(call.query) = <<call.query>>
           /\ outcome.probes = 4
           /\ \A i, j \in 1..Len(ProbeAddsOfCall) :
                  (/\ ProbeAddsOfCall[i].id = ProbeAddsOfCall[j].id
                   /\ ProbeAddsOfCall[i].field = ProbeAddsOfCall[j].field) => i = j

\* The variants C18 names for a query: the query, its decomposition if it
\* differs from the query, its chosung form if not empty and not the query.
VariantsInOrder(q) ==
    <<q>> \o (IF disassemble(q) # q THEN <<disassemble(q)>> ELSE <<>>)
          \o (IF getChoseong(q) # <<>> /\ getChoseong(q) # q
              THEN <<getChoseong(q)>> ELSE <<>>)

\* C18: for a query that is not chosung-only, normalizeKoreanQuery returns
\* a list without repetition that starts with the query: the query alone
\* when it has no Korean character, else the query, its decomposition if
\* different, its chosung form if not empty and different, in that order;
\* search probes the four token indices once for each entry.
C18_VariantsOfOtherQueries ==
    (SearchCalled /\ trim(call.query) # <<>> /\ ~isChosungOnly(trim(call.query)))
        => LET q == trim(call.query)
               variants == normalizeKoreanQuery(q)
           IN  /\ variants[1] = q
               /\ \A i, j \in 1..Len(variants) : variants[i] = variants[j] => i = j
               /\ ~containsKorean(q) => variants = <<q>>
               /\ containsKorean(q) => variants = VariantsInOrder(q)
               /\ outcome.probes = 4 * Len(variants)

\* C18's case: a query of a syllable and a letter has three variants, and
\* search made twelve probes for it.
C18_Witness ==
    /\ SearchCalled /\ Len(call.query) = 2
    /\ call.query[1] = GA /\ ~isKorean(call.query[2])
    /\ Len(normalizeKoreanQuery(call.query)) = 3
    /\ outcome.probes = 12

MatchCalled == call.op = "koreanMatch"

\* (a) of C19: the text contains the query, case apart.
DirectMatch == includes(toLowerCase(call.text), toLowerCase(call.query))

\* (b) of C19: the query is chosung-only and the chosung sequence of the
\* text contains it.
ChosungMatch == isChosungOnly(call.query) /\ includes(getChoseong(call.text), call.query)

\* (c) of C19: the query has a Korean character and the disassembled text
\* contains the disassembled query, case apart.
DisassembledMatch ==
    /\ containsKorean(call.query)
    /\ includes(toLowerCase(disassemble(call.text)), toLowerCase(disassemble(call.query)))

\* C19: koreanMatch(text, query) is true exactly when (a), (b) or (c)
\* holds; a chosung-only query that fails (a) and (b) and satisfies (c)
\* matches.
C19_MatchIffAnyOfThree ==
    MatchCalled => (outcome.val <=> (DirectMatch \/ ChosungMatch \/ DisassembledMatch))

\* C19 as amended: koreanMatch(text, query) is true exactly when (a) holds,
\* or (b) holds, or the query is not chosung-only and (c) holds.
C19_MatchIffDirectChosungOrElseDisassembled ==
    MatchCalled
        => (outcome.val <=> \/ DirectMatch
                            \/ ChosungMatch
                            \/ ~isChosungOnly(call.query) /\ DisassembledMatch)

\* C19's case: a chosung-only query that fails (a) and (b) and satisfies
\* (c), which koreanMatch answers false.
C19_Witness ==
    /\ MatchCalled /\ isChosungOnly(call.query)
    /\ ~DirectMatch /\ ~ChosungMatch /\ DisassembledMatch
    /\ outcome = Ok(FALSE)

\* The id of the document a result stands for (the slug of document id is
\* <<"s", id>>).
IdOfResult(r) == r.slug[2]

\* C20: of two returned documents with the same score, the one with the
\* smaller id comes first.
C20_TiesInIdOrder ==
    SearchCalled
        => \A i, j \in 1..Len(outcome.val) :
               (i < j /\ outcome.val[i].score = outcome.val[j].score)
                   => IdOfResult(outcome.val[i]) < IdOfResult(outcome.val[j])

\* C20 as amended: of two returned documents with the same score, the one
\* search scored first (the first call of addScore for it: the probes of
\* each variant in the order title, tags, headings, content, then the
\* Korean pass, then the fuzzy fallback) comes first.
C20_TiesInFirstScoredOrder ==
    (SearchCalled /\ trim(call.query) # <<>>)
        => LET adds == SearchAdds(index, call.query, call.options).val
               first(id) == CHOOSE k \in 1..Len(adds) :
                                /\ adds[k].id = id
                                /\ \A m \in 1..(k - 1) : adds[m].id # id
           IN  \A i, j \in 1..Len(outcome.val) :
                   (i < j /\ outcome.val[i].score = outcome.val[j].score)
                       => first(IdOfResult(outcome.val[i])) < first(IdOfResult(outcome.val[j]))

\* C20's case: two documents are returned with the same score, the second
\* of the corpus first, because a probe scored it first.
C20_Witness ==
    /\ SearchCalled /\ Len(outcome.val) = 2
    /\ outcome.val[1].score = outcome.val[2].score
    /\ IdOfResult(outcome.val[1]) = 1 /\ IdOfResult(outcome.val[2]) = 0
    /\ ProbeAddsOfCall # <<>> /\ ProbeAddsOfCall[1].id = 1

\* Whether the Korean pass matches the field of the indexed document doc.
KoreanFieldMatch(doc, field) ==
    IF field = "title" THEN koreanMatch(doc.title, call.query).val
    ELSE IF field = "tags"
    THEN \E k \in 1..Len(doc.tags) : koreanMatch(doc.tags[k], call.query).val
    ELSE IF field = "headings"
    THEN \E k \in 1..Len(doc.headings) : koreanMatch(doc.headings[k], call.query).val
    ELSE koreanMatch(slice(doc.content, 0, 5000), call.query).val

\* Eight tenths of the weight of a field.
EightTenthsOf(field) ==
    IF field = "title" THEN Frac(24, 10)
    ELSE IF field = "tags" THEN Frac(20, 10)
    ELSE IF field = "headings" THEN Frac(16, 10)
    ELSE Frac(8, 10)

\* C21: when the query has a Korean character the Korean pass makes, for
\* each document and field, one call of addScore with eight tenths of the
\* field's weight if the field matches koreanMatch (one tag, one heading
\* or several) and none otherwise; when it has none the pass adds nothing;
\* the score returned is that of the probes' weights plus the pass's.
C21_KoreanPassOncePerField ==
    (SearchCalled /\ trim(call.query) # <<>>)
        => LET probed == ProbeAddsOfCall
               korean == KoreanAdds(index, call.query).val
           IN  /\ ~containsKorean(call.query) => korean = <<>>
               /\ containsKorean(call.query)
                     => \A d \in 1..Len(index.documents) :
                            \A f \in {"title", "tags", "headings", "content"} :
                                LET calls == {k \in 1..Len(korean) :
                                                 korean[k].id = d - 1 /\ korean[k].field = f}
                                IN  /\ Cardinality(calls) =
                                          (IF KoreanFieldMatch(index.documents[d], f) THEN 1 ELSE 0)
                                    /\ \A k \in calls : korean[k].weight = EightTenthsOf(f)
               /\ probed \o korean # <<>>
                     => \A i \in 1..Len(outcome.val) :
                            outcome.val[i].score =
                                NormalizedScore(ScoreOf(probed \o korean, IdOfResult(outcome.val[i])))

\* C21's case: a chosung-only query matches two tags and two headings of a
\* document the probes do not find, and the document is returned with the
\* score of one tag, one heading and the content.
C21_Witness ==
    /\ SearchCalled /\ isChosungOnly(call.query)
    /\ Len(documents) = 1 /\ ProbeAddsOfCall = <<>>
    /\ Cardinality({k \in 1..Len(documents[1].tags) :
                        koreanMatch(documents[1].tags[k], call.query).val}) = 2
    /\ Cardinality({k \in 1..Len(index.documents[1].headings) :
                        koreanMatch(index.documents[1].headings[k], call.query).val}) = 2
    /\ ~koreanMatch(documents[1].title, call.query).val
    /\ Len(outcome.val) = 1
    /\ outcome.val[1].score = 52

ExcerptCalled == call.op = "extractExcerpt"

\* The match position of the answered call of extractExcerpt, or -1.
MatchIndexOfCall == ExcerptMatchIndex(call.content, call.query)

\* The edges of the window before they are moved to a space.
StartOfCall == Max(0, MatchIndexOfCall - (call.maxLength \div 2))
EndOfCall ==
    Min(Len(call.content), MatchIndexOfCall + Len(call.query) + (call.maxLength \div 2))

\* The excerpt cut from start to end, with the dots C22 names.
WindowOfCall(start, end) ==
    (IF start > 0 THEN Ellipsis ELSE <<>>)
        \o slice(call.content, start, end)
        \o (IF end < Len(call.content) THEN Ellipsis ELSE <<>>)

\* C22: when extractExcerpt (of a query that is not blank) finds a match at
\* m, the excerpt is the window from start to end with start <= m < end,
\* where start is the computed left edge or the position just after a space
\* that lies before m, end is the computed right edge or the position of
\* a space that lies after m, and "..." comes first exactly when
\* start > 0 and last exactly when end < content length.
C22_WindowAroundMatch ==
    (ExcerptCalled /\ trim(call.query) # <<>> /\ MatchIndexOfCall # -1)
        => LET m == MatchIndexOfCall
           IN  \E start \in 0..m, end \in (m + 1)..Len(call.content) :
                   /\ \/ start = StartOfCall
                      \/ start > StartOfCall /\ call.content[start] = SP
                   /\ \/ end = EndOfCall
                      \/ end < EndOfCall /\ call.content[end + 1] = SP
                   /\ outcome.val = WindowOfCall(start, end)

\* C22's case: both edges of the window were moved to a space, and the
\* excerpt has the dots on both sides.
C22_Witness ==
    /\ ExcerptCalled /\ trim(call.query) # <<>> /\ MatchIndexOfCall > 0
    /\ Len(outcome.val) > 6
    /\ SubSeq(outcome.val, 1, 3) = Ellipsis
    /\ SubSeq(outcome.val, Len(outcome.val) - 2, Len(outcome.val)) = Ellipsis
    /\ Len(outcome.val) - 6 <= EndOfCall - StartOfCall - 2
    /\ ~includes(call.content, <<DOT>>)

StripCalled == call.op = "stripMarkdown"

\* The content holds the image ![a](u), or the link [a](u) (the contents
\* of the model hold no other "!", "a" or "u").
HoldsImage == includes(call.content, <<"!", "[", "a", "]", "(", "u", ")">>)
HoldsLink == ~HoldsImage /\ includes(call.content, <<"[", "a", "]", "(", "u", ")">>)

\* C23: of an image ![a](u) stripMarkdown keeps neither the alt text, nor
\* the url, nor the "!"; of a link [a](u) it keeps the text and not the
\* url.
C23_ImagesDroppedLinksKeepText ==
    StripCalled
        => /\ HoldsImage => /\ ~includes(outcome.val, <<"a">>)
                            /\ ~includes(outcome.val, <<"u">>)
                            /\ ~includes(outcome.val, <<"!">>)
           /\ HoldsLink => /\ includes(outcome.val, <<"a">>)
                           /\ ~includes(outcome.val, <<"u">>)

\* C24: search returns for a query what it returns for the trimmed query:
\* the same results, scores and excerpts.
C24_SearchIgnoresSurroundingSpace ==
    SearchCalled => outcome.val = search(index, trim(call.query), call.options).val

\* The first position at which the content holds the query, case apart,
\* or -1.
DirectIndexOfCall == indexOf(toLowerCase(call.content), toLowerCase(call.query), 0)

\* C25: when the content holds the query (not blank), case apart, the
\* excerpt is a window of the content that covers the whole first
\* occurrence, from its first character to its last.  Stated for a
\* maxLength of 2 or more: the statement fails even with the smallest
\* windows left out.
C25_ExcerptCoversMatch ==
    (/\ ExcerptCalled /\ call.maxLength >= 2
     /\ trim(call.query) # <<>> /\ DirectIndexOfCall # -1)
        => \E start \in 0..DirectIndexOfCall,
              end \in (DirectIndexOfCall + Len(call.query))..Len(call.content) :
               outcome.val = WindowOfCall(start, end)

\* C26: the results of search have pairwise distinct slugs (the slugs of
\* the corpus being distinct).
C26_NoDocumentTwice ==
    SearchCalled
        => \A i, j \in 1..Len(outcome.val) :
               outcome.val[i].slug = outcome.val[j].slug => i = j

\* C26's case: the probes of two variants and the Korean pass scored the
\* same document in several fields, and it is returned once.
C26_Witness ==
    /\ SearchCalled /\ Len(documents) = 1
    /\ Cardinality({ProbeAddsOfCall[k].field : k \in 1..Len(ProbeAddsOfCall)}) >= 3
    /\ Len(ProbeAddsOfCall) >= 4
    /\ Len(KoreanAdds(index, call.query).val) >= 3
    /\ Len(outcome.val) = 1

\* C27: when no doIndex and no doSearch is waiting to run, the results of
\* the store are those of search for its query on its index with
\* {limit: 20, fuzzy: true}, and none when the query is blank or there is
\* no index.
C27_ResultsFollowQueryAndIndex ==
    tasks = NoTasks
        => store.results =
               (IF trim(store.query) = <<>> \/ ~store.index.built THEN <<>>
                ELSE search(store.index, store.query, StoreSearchOptions).val)

\* C28: isIndexing is true while a doIndex scheduled by indexDocuments has
\* not run yet.
C28_IndexingWhileBuildPending ==
    tasks.idle # <<>> => store.isIndexing

\* The list the search modal displays: the results for a query that is not
\* blank, the recent searches otherwise.
DisplayedList == IF trim(store.query) # <<>> THEN store.results ELSE store.recentSearches

\* C29: selectedIndex is never negative, and is less than the length of the
\* displayed list when that list is not empty.
C29_SelectionWithinList ==
    /\ store.selectedIndex >= 0
    /\ DisplayedList # <<>> => store.selectedIndex < Len(DisplayedList)

\* The list loadRecentSearches restores from localStorage in a new store.
PersistedList ==
    IF localStorage.present THEN slice(localStorage.json, 0, MAX_RECENT_SEARCHES) ELSE <<>>

\* C30: starting from the empty list, after addToRecent, removeFromRecent
\* and clearRecent the recent searches are at most 10, without repetition
\* and without a blank entry; after addToRecent(q) with q not blank the
\* first entry is q; the list persisted to localStorage is the list in
\* memory.
C30_RecentSearchesWellFormed ==
    LET list == store.recentSearches
    IN  /\ Len(list) <= 10
        /\ \A i, j \in 1..Len(list) : list[i] = list[j] => i = j
        /\ \A i \in 1..Len(list) : trim(list[i]) # <<>>
        /\ (call.op = "addToRecent" /\ trim(call.query) # <<>>)
               => (list # <<>> /\ list[1] = call.query)
        /\ PersistedList = list

\* C30's case: a query is added to a list of ten others: it comes first
\* and the list still has ten entries, the oldest one gone.
C30_Witness ==
    /\ call.op = "addToRecent" /\ call.query = <<"b">>
    /\ Len(store.recentSearches) = 10
    /\ store.recentSearches[1] = <<"b">>
    /\ store.recentSearches[2] = RecentQuery(10)
    /\ store.recentSearches[10] = RecentQuery(2)
    /\ localStorage = Item(store.recentSearches)
====
